---- MODULE Spec2Model ----
(***************************************************************************)
(* WeebTours API (src/main.py): the HTTP handlers over a document store.   *)
(*                                                                         *)
(* The handlers are translated from src/main.py.  The document access      *)
(* layer (module `database`: db, create_document, get_documents) is        *)
(* imported by main.py but is not among the sources; it is modelled from   *)
(* section 4.2 of the specification.                                       *)
(*                                                                         *)
(* Text is modelled by TLA+ strings (Len and SubSeq slice them), Python's  *)
(* Optional[T] by a sequence of length at most one (<<>> is None), a JSON  *)
(* body by a record whose DOMAIN is the set of keys the client sent.       *)
(* Emoji in the diagnostic strings are written as ASCII tags.              *)
(***************************************************************************)
EXTENDS Integers, Sequences, FiniteSets, TLC

(* ------------------------------ bounds -------------------------------- *)

\* Documents the store may hold under Spec (caps the identifier counter).
MaxDocs == 2

\* Tours the store may hold under SpecMany: one more than the default limit.
MaxTours == 21

(* -------------------------- program constants ------------------------- *)

\* list_tours(limit: int = 20)
DefaultLimit == 20

\* str(e)[:50]
ErrCut == 50

\* collections[:10]
CollectionsCut == 10

\* str(ObjectId) is 24 hexadecimal characters.
OidHexLen == 24

(* ------------------------------ helpers ------------------------------- *)

Min(a, b) == IF a <= b THEN a ELSE b

\* Python's s[:n] for n >= 0, on strings and on lists.
Slice(s, n) == IF Len(s) = 0 THEN s ELSE SubSeq(s, 1, Min(n, Len(s)))

\* Optional[T]
None == <<>>
Some(x) == <<x>>

Char(s, i) == SubSeq(s, i, i)

Digits == {"0", "1", "2", "3", "4", "5", "6", "7", "8", "9"}

DigitVal(c) ==
  CASE c = "0" -> 0 [] c = "1" -> 1 [] c = "2" -> 2 [] c = "3" -> 3
    [] c = "4" -> 4 [] c = "5" -> 5 [] c = "6" -> 6 [] c = "7" -> 7
    [] c = "8" -> 8 [] c = "9" -> 9

AllDigits(s, i, j) == \A k \in i..j : Char(s, k) \in Digits

RECURSIVE ParseInt(_, _, _)
ParseInt(s, i, j) ==
  IF j < i THEN 0 ELSE 10 * ParseInt(s, i, j - 1) + DigitVal(Char(s, j))

(* ------------------- datetime.fromisoformat (line 112) ---------------- *)

IsLeap(y) == (y % 4 = 0) /\ ((y % 100 # 0) \/ (y % 400 = 0))

DaysInMonth(y, m) ==
  IF m = 2 THEN (IF IsLeap(y) THEN 29 ELSE 28)
  ELSE IF m \in {4, 6, 9, 11} THEN 30 ELSE 31

\* The date part YYYY-MM-DD at the head of s, with the calendar's ranges.
ParsesDatePart(s) ==
  /\ Len(s) >= 10
  /\ AllDigits(s, 1, 4) /\ Char(s, 5) = "-"
  /\ AllDigits(s, 6, 7) /\ Char(s, 8) = "-"
  /\ AllDigits(s, 9, 10)
  /\ LET y == ParseInt(s, 1, 4)
         m == ParseInt(s, 6, 7)
         d == ParseInt(s, 9, 10)
     IN  /\ y >= 1
         /\ m \in 1..12
         /\ d \in 1..DaysInMonth(y, m)

\* The time part HH[:MM[:SS]] from position 12 on (position 11 is the
\* separator, which may be any one character).
ParsesTimePart(s) ==
  LET n == Len(s) IN
  /\ n \in {13, 16, 19}
  /\ AllDigits(s, 12, 13) /\ ParseInt(s, 12, 13) \in 0..23
  /\ n >= 16 => ( /\ Char(s, 14) = ":"
                  /\ AllDigits(s, 15, 16) /\ ParseInt(s, 15, 16) \in 0..59 )
  /\ n >= 19 => ( /\ Char(s, 17) = ":"
                  /\ AllDigits(s, 18, 19) /\ ParseInt(s, 18, 19) \in 0..59 )

\* TRUE iff datetime.fromisoformat(s) returns (does not raise), for the
\* texts of StartDates: a date, or a date, a separator and a time.  (The
\* fraction, the UTC offset and the basic forms are not among the inputs.)
fromisoformat_ok(s) ==
  /\ ParsesDatePart(s)
  /\ Len(s) > 10 => ParsesTimePart(s)

\* An ISO calendar date, YYYY-MM-DD: what the handler's message names.
IsISOCalendarDate(s) == Len(s) = 10 /\ ParsesDatePart(s)

(* ----------------------------- str(ObjectId) -------------------------- *)

HexDigit(d) == SubSeq("0123456789abcdef", d + 1, d + 1)

RECURSIVE HexPad(_, _)
HexPad(n, width) ==
  IF width = 0 THEN "" ELSE HexPad(n \div 16, width - 1) \o HexDigit(n % 16)

\* An ObjectId is modelled by the number the store's generator gave it;
\* str() renders it as OidHexLen hexadecimal characters.
ObjectIdStr(oid) == HexPad(oid, OidHexLen)

(* ------------------------------- state -------------------------------- *)

VARIABLES
  db,              \* the process-wide store handle: "None" or "Database"
  conn,            \* the store behind the handle: "up", "down", "read_only"
  env,             \* which of DATABASE_URL, DATABASE_NAME are set
  store,           \* the collections: name -> documents in natural order
  next_oid,        \* the store's identifier generator
  response,        \* the last HTTP response (with the request it answers)
  issued_tour_ids  \* history: identifiers returned by POST /api/tours

vars == <<db, conn, env, store, next_oid, response, issued_tour_ids>>

Collections == {"tour", "booking"}

(* ------------------------ request bodies (JSON) ----------------------- *)

\* class TourIn
TourRequired == {"name", "destination", "start_date", "duration_days",
                 "price", "summary"}
TourOptional == {"highlights", "cover_image"}

\* class BookingIn
BookingRequired == {"tour_id", "full_name", "email"}
BookingOptional == {"phone", "notes"}

\* travelers: int = 1
TravelersDefault == 1

\* Pydantic validation of a JSON body against TourIn: the declared fields
\* only (extra keys are ignored), an Optional field absent is None.
TourIn(body) ==
  [f \in TourRequired \cup TourOptional |->
     IF f \in TourRequired THEN body[f]
     ELSE IF f \in DOMAIN body THEN Some(body[f]) ELSE None]

\* A variant with the default misdeclared: travelers: int = 0.
BookingIn_default_zero(body) ==
  [f \in BookingRequired \cup BookingOptional \cup {"travelers"} |->
     IF f \in BookingRequired THEN body[f]
     ELSE IF f = "travelers"
          THEN (IF f \in DOMAIN body THEN body[f] ELSE 0)
     ELSE IF f \in DOMAIN body THEN Some(body[f]) ELSE None]

\* Pydantic validation of a JSON body against BookingIn.
BookingIn(body) ==
  [f \in BookingRequired \cup BookingOptional \cup {"travelers"} |->
     IF f \in BookingRequired THEN body[f]
     ELSE IF f = "travelers"
          THEN (IF f \in DOMAIN body THEN body[f] ELSE TravelersDefault)
     ELSE IF f \in DOMAIN body THEN Some(body[f]) ELSE None]

\* model.model_dump(): the dict of the model's fields.
model_dump(m) == [f \in DOMAIN m |-> m[f]]

(* ------------------------------ responses ----------------------------- *)

NoDiag ==
  [backend |-> "", database |-> "", database_url |-> "",
   database_name |-> "", connection_status |-> "", collections |-> <<>>]

\* Every response has the same shape; an endpoint fills its own fields.
\* store_calls counts the calls into the document access layer made while
\* the request was handled, docs_seen the documents its collection held
\* then; req_limit and req_body echo the request.
NoResponse ==
  [op |-> "", status |-> 0, detail |-> "", message |-> "", id |-> "",
   tours |-> <<>>, faqs |-> <<>>, diag |-> NoDiag, store_calls |-> 0,
   docs_seen |-> 0, req_limit |-> None, req_body |-> None]

\* raise HTTPException(status_code=..., detail=...)
HTTPException(op, status_code, detail, calls) ==
  [NoResponse EXCEPT !.op = op, !.status = status_code, !.detail = detail,
                     !.store_calls = calls]

\* FastAPI answers 422 before the handler runs when the body lacks a field.
RequestValidationError(op) ==
  [NoResponse EXCEPT !.op = op, !.status = 422, !.detail = "Field required"]

DateMsg == "start_date must be ISO format YYYY-MM-DD"

(* -------------- document access layer (module `database`) ------------- *)

NoDbMsg ==
  "Database not available. Check DATABASE_URL and DATABASE_NAME environment variables."
ConnLostMsg ==
  "localhost:27017: [Errno 111] Connection refused, Timeout: 30s"
WriteRejectedMsg == "not authorized to execute command insert"

Raise(msg) == [raised |-> TRUE, msg |-> msg]
Return(v) == [raised |-> FALSE, value |-> v]

\* A document matches a filter when it agrees with it on every key of the
\* filter; the empty filter matches every document.
EmptyFilter == <<>>
Matches(doc, filter_dict) ==
  \A k \in DOMAIN filter_dict : k \in DOMAIN doc /\ doc[k] = filter_dict[k]

\* Up to `limit` of the documents, in the store's order.
UpTo(docs, limit) ==
  IF limit <= 0 \/ Len(docs) = 0 THEN <<>>
  ELSE SubSeq(docs, 1, Min(limit, Len(docs)))

get_documents(collection_name, filter_dict, limit) ==
  IF db = "None" THEN Raise(NoDbMsg)
  ELSE IF conn = "down" THEN Raise(ConnLostMsg)
  ELSE Return(UpTo(SelectSeq(store[collection_name],
                             LAMBDA d : Matches(d, filter_dict)), limit))

\* Inserts the record under a fresh identifier; returns it as text.  The
\* result carries the store as the insertion leaves it.
create_document(collection_name, data) ==
  IF db = "None" THEN Raise(NoDbMsg)
  ELSE IF conn = "down" THEN Raise(ConnLostMsg)
  ELSE IF conn = "read_only" THEN Raise(WriteRejectedMsg)
  ELSE [raised |-> FALSE,
        value |-> ObjectIdStr(next_oid),
        store |-> [store EXCEPT ![collection_name] =
                     Append(@, [_id |-> next_oid] @@ data)],
        next_oid |-> next_oid + 1]

\* db.list_collection_names(): the collections that hold a document.
list_collection_names ==
  IF conn = "down" THEN Raise(ConnLostMsg)
  ELSE Return(
    (IF Len(store["booking"]) > 0 THEN <<"booking">> ELSE <<>>)
    \o (IF Len(store["tour"]) > 0 THEN <<"tour">> ELSE <<>>))

(* ------------------------------ handlers ------------------------------ *)

\* @app.get("/")
read_root ==
  /\ response' = [NoResponse EXCEPT !.op = "read_root", !.status = 200,
                    !.message = "WeebTours Backend Running"]
  /\ UNCHANGED <<db, conn, env, store, next_oid, issued_tour_ids>>

\* @app.get("/api/hello")
hello ==
  /\ response' = [NoResponse EXCEPT !.op = "hello", !.status = 200,
                    !.message = "Hello from WeebTours API"]
  /\ UNCHANGED <<db, conn, env, store, next_oid, issued_tour_ids>>

\* The diagnostic object of GET /test, built assignment by assignment.
diag_object ==
  LET r0 == [backend |-> "[ok] Running",
             database |-> "[x] Not Available",
             database_url |-> "None",
             database_name |-> "None",
             connection_status |-> "Not Connected",
             collections |-> <<>>]
      r1 == IF db # "None"
            THEN LET a == [r0 EXCEPT !.database = "[ok] Available",
                                     !.database_url = "[ok] Configured",
                                     !.database_name = "weebtours",
                                     !.connection_status = "Connected"]
                     l == list_collection_names
                 IN  IF l.raised
                     THEN [a EXCEPT !.database =
                             "[!]  Connected but Error: " \o Slice(l.msg, ErrCut)]
                     ELSE [a EXCEPT !.collections = Slice(l.value, CollectionsCut),
                                    !.database = "[ok] Connected & Working"]
            ELSE [r0 EXCEPT !.database = "[!]  Available but not initialized"]
      r2 == [r1 EXCEPT
               !.database_url = IF env.DATABASE_URL THEN "[ok] Set" ELSE "[x] Not Set",
               !.database_name = IF env.DATABASE_NAME THEN "[ok] Set" ELSE "[x] Not Set"]
  IN  r2

\* A variant with no try/except around the listing: its error propagates.
test_database_unguarded ==
  IF db # "None" /\ list_collection_names.raised
  THEN HTTPException("test_database", 500, list_collection_names.msg, 1)
  ELSE [NoResponse EXCEPT !.op = "test_database", !.status = 200,
                          !.diag = diag_object,
                          !.store_calls = IF db # "None" THEN 1 ELSE 0]

\* The handler returns the object: no raise leaves its try blocks.
test_database_response ==
  [NoResponse EXCEPT !.op = "test_database", !.status = 200,
                     !.diag = diag_object,
                     !.store_calls = IF db # "None" THEN 1 ELSE 0]

\* @app.get("/test")
test_database ==
  /\ response' = test_database_response
  /\ UNCHANGED <<db, conn, env, store, next_oid, issued_tour_ids>>

\* A variant that pops the wrong key: str(item.pop("id", None)).
render_id_wrong_key(item) ==
  [k \in (DOMAIN item \ {"_id"}) \cup {"id"} |->
     IF k = "id" THEN "None" ELSE item[k]]

\* item["id"] = str(item.pop("_id")), on the handler's copy of the document.
render_id(item) ==
  [k \in (DOMAIN item \ {"_id"}) \cup {"id"} |->
     IF k = "id" THEN ObjectIdStr(item["_id"]) ELSE item[k]]

\* A variant that hides the store's message.
store_error_generic(base, e) ==
  [base EXCEPT !.status = 500, !.detail = "Internal Server Error",
               !.store_calls = 1]

\* except Exception as e: raise HTTPException(status_code=500, detail=str(e))
store_error(base, e) ==
  [base EXCEPT !.status = 500, !.detail = e.msg, !.store_calls = 1]

\* A variant that returns the string of a missing value.
id_response_none(base, document_id) ==
  [base EXCEPT !.status = 200, !.id = "None", !.store_calls = 1]

\* return {"id": document_id}
id_response(base, document_id) ==
  [base EXCEPT !.status = 200, !.id = document_id, !.store_calls = 1]

\* A variant that does not pass the limit on to the store.
list_tours_response_unlimited(query) ==
  LET r == get_documents("tour", EmptyFilter, Len(store["tour"]))
      base == [NoResponse EXCEPT !.op = "list_tours", !.req_limit = query,
                 !.store_calls = 1, !.docs_seen = Len(store["tour"])]
  IN  IF r.raised
      THEN store_error(base, r)
      ELSE [base EXCEPT !.status = 200,
              !.tours = [i \in DOMAIN r.value |-> render_id(r.value[i])]]

\* The response of GET /api/tours; `query` is the limit parameter, if sent.
list_tours_response(query) ==
  LET limit == IF query = None THEN DefaultLimit ELSE query[1]
      r == get_documents("tour", EmptyFilter, limit)
      base == [NoResponse EXCEPT !.op = "list_tours", !.req_limit = query,
                 !.store_calls = 1, !.docs_seen = Len(store["tour"])]
  IN  IF r.raised
      THEN store_error(base, r)
      ELSE [base EXCEPT !.status = 200,
              !.tours = [i \in DOMAIN r.value |-> render_id(r.value[i])]]

\* A variant whose rewrite reaches the stored documents: each gains "id".
list_tours_writes_back(query) ==
  /\ response' = list_tours_response(query)
  /\ store' = IF response'.status = 200
              THEN [store EXCEPT !["tour"] =
                      [i \in DOMAIN @ |->
                         IF i <= Len(response'.tours)
                         THEN [id |-> ObjectIdStr(@[i]["_id"])] @@ @[i]
                         ELSE @[i]]]
              ELSE store
  /\ UNCHANGED <<db, conn, env, next_oid, issued_tour_ids>>

\* @app.get("/api/tours")
list_tours(query) ==
  /\ response' = list_tours_response(query)
  /\ UNCHANGED <<db, conn, env, store, next_oid, issued_tour_ids>>

\* @app.post("/api/tours")
create_tour(body) ==
  LET base == [NoResponse EXCEPT !.op = "create_tour", !.req_body = Some(body),
                 !.docs_seen = Len(store["tour"])]
  IN
  IF ~(TourRequired \subseteq DOMAIN body)
  THEN /\ response' = [base EXCEPT !.status = 422, !.detail = "Field required"]
       /\ UNCHANGED <<db, conn, env, store, next_oid, issued_tour_ids>>
  ELSE
  LET tour == TourIn(body) IN
  IF ~fromisoformat_ok(tour.start_date)
  THEN /\ response' = [base EXCEPT !.status = 400, !.detail = DateMsg]
       /\ UNCHANGED <<db, conn, env, store, next_oid, issued_tour_ids>>
  ELSE
  LET tour_dict == model_dump(tour)
      r == create_document("tour", tour_dict)
  IN  IF r.raised
      THEN /\ response' = store_error(base, r)
           /\ UNCHANGED <<db, conn, env, store, next_oid, issued_tour_ids>>
      ELSE /\ response' = id_response(base, r.value)
           /\ store' = r.store
           /\ next_oid' = r.next_oid
           /\ issued_tour_ids' = issued_tour_ids \cup {r.value}
           /\ UNCHANGED <<db, conn, env>>

booking_base(body) ==
  [NoResponse EXCEPT !.op = "create_booking", !.req_body = Some(body),
     !.docs_seen = Len(store["booking"])]

\* The body of create_booking, for a body that validates as BookingIn.
persist_booking(body) ==
  LET base == booking_base(body)
      booking_dict == model_dump(BookingIn(body))
      r == create_document("booking", booking_dict)
  IN  IF r.raised
      THEN /\ response' = store_error(base, r)
           /\ UNCHANGED <<db, conn, env, store, next_oid, issued_tour_ids>>
      ELSE /\ response' = id_response(base, r.value)
           /\ store' = r.store
           /\ next_oid' = r.next_oid
           /\ UNCHANGED <<db, conn, env, issued_tour_ids>>

\* A variant that looks the tour up first and refuses an unknown tour_id.
create_booking_checks_tour(body) ==
  IF ~(BookingRequired \subseteq DOMAIN body)
  THEN /\ response' = [booking_base(body) EXCEPT !.status = 422,
                                                 !.detail = "Field required"]
       /\ UNCHANGED <<db, conn, env, store, next_oid, issued_tour_ids>>
  ELSE IF \A i \in DOMAIN store["tour"] :
            ObjectIdStr(store["tour"][i]["_id"]) # body["tour_id"]
  THEN /\ response' = [booking_base(body) EXCEPT !.status = 404,
                                                 !.detail = "Tour not found"]
       /\ UNCHANGED <<db, conn, env, store, next_oid, issued_tour_ids>>
  ELSE persist_booking(body)

\* @app.post("/api/bookings")
create_booking(body) ==
  IF ~(BookingRequired \subseteq DOMAIN body)
  THEN /\ response' = [booking_base(body) EXCEPT !.status = 422,
                                                 !.detail = "Field required"]
       /\ UNCHANGED <<db, conn, env, store, next_oid, issued_tour_ids>>
  ELSE persist_booking(body)

\* The list of get_faqs.
FAQS ==
  << [question |-> "How do I book a tour?",
      answer |-> "Choose a tour, hit Book Now, and fill out your details."],
     [question |-> "What payment methods are accepted?",
      answer |-> "We accept major cards and secure online transfers."],
     [question |-> "What is the cancellation policy?",
      answer |-> "Free cancellation up to 7 days before departure."],
     [question |-> "Is travel insurance included?",
      answer |-> "Insurance is optional and can be added at checkout."],
     [question |-> "How can I contact support?",
      answer |-> "Email support@weebtours.com or call +1 (555) 123-4567."] >>

\* A variant that serves the list only while the store answers.
get_faqs_response_needs_store ==
  IF db = "None" \/ conn = "down"
  THEN HTTPException("get_faqs", 500, NoDbMsg, 1)
  ELSE [NoResponse EXCEPT !.op = "get_faqs", !.status = 200, !.faqs = FAQS]

get_faqs_response ==
  [NoResponse EXCEPT !.op = "get_faqs", !.status = 200, !.faqs = FAQS]

\* @app.get("/api/faqs")
get_faqs ==
  /\ response' = get_faqs_response
  /\ UNCHANGED <<db, conn, env, store, next_oid, issued_tour_ids>>

\* The environment: the store behind the handle goes down, comes back, or
\* starts rejecting writes.
store_changes(c) ==
  /\ c # conn
  /\ conn' = c
  /\ UNCHANGED <<db, env, store, next_oid, response, issued_tour_ids>>

(* ------------------------------- inputs ------------------------------- *)

StartDates == {"2024-03-15", "2024-02-30", "13/2024", "2024-03-15T10:30:00"}

TourBody(start_date) ==
  [name |-> "Akihabara Nights", destination |-> "Tokyo",
   start_date |-> start_date, duration_days |-> 7, price |-> 1999,
   summary |-> "Arcades, cafes and studios."]

Without(body, key) == [k \in DOMAIN body \ {key} |-> body[k]]

TourBodies ==
  {TourBody(d) : d \in StartDates}
  \cup {[cover_image |-> "https://img.example/akiba.png", _id |-> "mine"]
          @@ TourBody("2024-02-29")}
  \cup {Without(TourBody("2024-03-15"), "summary")}

BookingBody(tour_id) ==
  [tour_id |-> tour_id, full_name |-> "Rin Okabe", email |-> "rin@example.com"]

BookingBodies ==
  {BookingBody(ObjectIdStr(1)), BookingBody("no-such-tour"),
   [travelers |-> 3, phone |-> "555-0100", _id |-> "mine"]
      @@ BookingBody(ObjectIdStr(2)),
   Without(BookingBody(ObjectIdStr(1)), "email")}

LimitQueries == {None, Some(-1), Some(0), Some(1), Some(2)}

StoreConditions == {"up", "down", "read_only"}

(* --------------------------- specifications --------------------------- *)

Init ==
  /\ db \in {"None", "Database"}
  /\ conn = "up"
  /\ env \in [{"DATABASE_URL", "DATABASE_NAME"} -> BOOLEAN]
  /\ store = [c \in Collections |-> <<>>]
  /\ next_oid = 1
  /\ response = NoResponse
  /\ issued_tour_ids = {}

Next ==
  \/ read_root
  \/ hello
  \/ test_database
  \/ \E q \in LimitQueries : list_tours(q)
  \/ (next_oid <= MaxDocs /\ \E body \in TourBodies : create_tour(body))
  \/ (next_oid <= MaxDocs /\ \E body \in BookingBodies : create_booking(body))
  \/ get_faqs
  \/ \E c \in StoreConditions : store_changes(c)

Spec == Init /\ [][Next]_vars

\* Many tours of one payload: the default limit is reached and passed.
InitMany ==
  /\ db = "Database"
  /\ conn = "up"
  /\ env = [v \in {"DATABASE_URL", "DATABASE_NAME"} |-> TRUE]
  /\ store = [c \in Collections |-> <<>>]
  /\ next_oid = 1
  /\ response = NoResponse
  /\ issued_tour_ids = {}

ManyLimitQueries == {None, Some(-1), Some(0), Some(2)}

NextMany ==
  \/ (Len(store["tour"]) < MaxTours /\ create_tour(TourBody("2024-03-15")))
  \/ \E q \in ManyLimitQueries : list_tours(q)
  \/ \E c \in StoreConditions : store_changes(c)

SpecMany == InitMany /\ [][NextMany]_vars

(* ------------------------------- claims ------------------------------- *)

Last(seq) == seq[Len(seq)]

TourIds(resp) == {resp.tours[i]["id"] : i \in DOMAIN resp.tours}

StoreAvailable == db = "Database" /\ conn = "up"

\* The limit a GET /api/tours request asks for.
AskedLimit(resp) == IF resp.req_limit = None THEN 20 ELSE resp.req_limit[1]

\* A step taken by POST /api/tours (every other handler writes its own op;
\* the environment's step changes conn).
CreateTourStep == response'.op = "create_tour" /\ conn' = conn

\* A step taken by GET /api/tours with the limit omitted, answered 200.
DefaultListStep ==
  /\ response'.op = "list_tours" /\ conn' = conn
  /\ response'.status = 200 /\ response'.req_limit = None

\* POST /api/tours with an ISO calendar date and the store available
\* returns 200 with a non-empty identifier.
PostReturnsId ==
  ( /\ CreateTourStep
    /\ StoreAvailable
    /\ TourRequired \subseteq DOMAIN response'.req_body[1]
    /\ IsISOCalendarDate(response'.req_body[1]["start_date"]) )
  => /\ response'.status = 200
     /\ Len(response'.id) > 0
     /\ response'.id \in issued_tour_ids'

\* C1 as stated: a tour created with an ISO-format start_date and the store
\* available gets a non-empty identifier, and every later GET /api/tours
\* with the default limit lists a record with that identifier, however many
\* tours exist.
C1_AnyNumberOfTours ==
  [][ /\ PostReturnsId
      /\ DefaultListStep =>
           \A id \in issued_tour_ids : id \in TourIds(response') ]_vars

\* C1 amended: the same, for every GET /api/tours with the default limit
\* made while the tour collection holds at most 20 tours.
C1_WithinDefaultLimit ==
  [][ /\ PostReturnsId
      /\ (DefaultListStep /\ Len(store["tour"]) <= 20) =>
           \A id \in issued_tour_ids : id \in TourIds(response') ]_vars

\* C1 witness: a default-limit listing of a full 20 tours, all issued.
C1_Witness ==
  /\ response.op = "list_tours" /\ response.status = 200
  /\ response.req_limit = None
  /\ response.docs_seen = 20
  /\ Cardinality(issued_tour_ids) >= 20
  /\ \E id \in issued_tour_ids : id \in TourIds(response)

\* C2 as stated: a start_date that is not an ISO calendar date (YYYY-MM-DD)
\* is answered 400 with the exact message and without a call to the store.
C2_BadDateIs400 ==
  ( /\ response.op = "create_tour"
    /\ TourRequired \subseteq DOMAIN response.req_body[1]
    /\ ~IsISOCalendarDate(response.req_body[1]["start_date"]) )
  => /\ response.status = 400
     /\ response.detail = "start_date must be ISO format YYYY-MM-DD"
     /\ response.store_calls = 0

\* C3 as stated: for every integer limit N, GET /api/tours returns at most
\* N tours (at most 20 with the limit omitted).
C3_AtMostLimit ==
  (response.op = "list_tours" /\ response.status = 200)
  => Len(response.tours) <= AskedLimit(response)

\* C3 amended: for every non-negative limit N, GET /api/tours returns at
\* most N tours (at most 20 with the limit omitted), also when the
\* collection holds more.
C3_AtMostNonNegativeLimit ==
  ( /\ response.op = "list_tours" /\ response.status = 200
    /\ AskedLimit(response) >= 0 )
  => Len(response.tours) <= AskedLimit(response)

\* C3 witness: limit=2 answered with 2 tours out of more than 2.
C3_Witness ==
  /\ response.op = "list_tours" /\ response.status = 200
  /\ response.req_limit = Some(2)
  /\ response.docs_seen > 2
  /\ Len(response.tours) = 2

\* The error the store raises for a read or a write as things stand.
ExpectedStoreError(write) ==
  IF db = "None"
  THEN "Database not available. Check DATABASE_URL and DATABASE_NAME environment variables."
  ELSE IF conn = "down"
  THEN "localhost:27017: [Errno 111] Connection refused, Timeout: 30s"
  ELSE "not authorized to execute command insert"

StoreFails(write) ==
  db = "None" \/ conn = "down" \/ (write /\ conn = "read_only")

\* A step of one of the three handlers that reaches the store: the request
\* validated, and for POST /api/tours the date is an ISO calendar date.
StoreRequestStep ==
  /\ conn' = conn
  /\ \/ response'.op = "list_tours"
     \/ /\ response'.op = "create_tour"
        /\ TourRequired \subseteq DOMAIN response'.req_body[1]
        /\ IsISOCalendarDate(response'.req_body[1]["start_date"])
     \/ /\ response'.op = "create_booking"
        /\ BookingRequired \subseteq DOMAIN response'.req_body[1]

\* C4: when the store call fails, each of the three handlers answers 500
\* with the store's message after exactly one store call, returns no
\* result and adds no record.
C4_StoreFailureIs500 ==
  [][ (StoreRequestStep /\ StoreFails(response'.op # "list_tours")) =>
        /\ response'.status = 500
        /\ response'.detail = ExpectedStoreError(response'.op # "list_tours")
        /\ response'.store_calls = 1
        /\ response'.id = "" /\ response'.tours = <<>>
        /\ store' = store /\ next_oid' = next_oid ]_vars

\* C4 witness: a booking refused by a store that rejects the write.
C4_Witness ==
  /\ response.op = "create_booking" /\ response.status = 500
  /\ response.detail = "not authorized to execute command insert"
  /\ response.store_calls = 1

\* C5: GET /test answers 200 with the diagnostic object whatever the store
\* does; a failure shows only as the text of its "database" field.
C5_TestNeverFails ==
  [][ (response'.op = "test_database" /\ conn' = conn) =>
        /\ response'.status = 200
        /\ response'.detail = ""
        /\ response'.diag.backend = "[ok] Running"
        /\ response'.diag.database =
             ( IF db = "None" THEN "[!]  Available but not initialized"
               ELSE IF conn = "down"
               THEN "[!]  Connected but Error: "
                      \o "localhost:27017: [Errno 111] Connection refused, T"
               ELSE "[ok] Connected & Working" ) ]_vars

\* C5 witness: the listing failed and GET /test still answered 200.
C5_Witness ==
  /\ response.op = "test_database" /\ response.status = 200
  /\ response.diag.connection_status = "Connected"
  /\ response.diag.database # "[ok] Connected & Working"
  /\ response.diag.collections = <<>>

AllDocs == store["tour"] \o store["booking"]

TourFields == {"name", "destination", "start_date", "duration_days", "price",
               "summary", "highlights", "cover_image"}
BookingFields == {"tour_id", "full_name", "email", "phone", "travelers", "notes"}

C7_FaqsFixed ==
  response.op = "get_faqs" =>
    /\ response.status = 200
    /\ Len(response.faqs) = 5
    /\ response.faqs = FAQS
    /\ \A i \in 1..5 : DOMAIN response.faqs[i] = {"question", "answer"}

\* C7 witness: the list served with the store down and records persisted.
C7_Witness ==
  /\ response.op = "get_faqs" /\ response.status = 200
  /\ conn = "down" /\ Len(AllDocs) > 0

\* C8: a booking created with travelers omitted is persisted with
\* travelers = 1; with travelers supplied, with the supplied value.
C8_TravelersDefault ==
  (response.op = "create_booking" /\ response.status = 200) =>
    Last(store["booking"])["travelers"] =
      ( IF "travelers" \in DOMAIN response.req_body[1]
        THEN response.req_body[1]["travelers"] ELSE 1 )

\* C8 witness: a booking created with travelers omitted.
C8_Witness ==
  /\ response.op = "create_booking" /\ response.status = 200
  /\ "travelers" \notin DOMAIN response.req_body[1]
  /\ Last(store["booking"])["travelers"] = 1

\* C9: with the store available, a booking with its required fields is
\* persisted and its identifier returned whatever its tour_id and whatever
\* the tour collection holds; the tour collection is left as it was.
C9_BookingIgnoresTours ==
  [][ (response'.op = "create_booking" /\ conn' = conn) =>
        /\ store'["tour"] = store["tour"]
        /\ ( StoreAvailable
             /\ BookingRequired \subseteq DOMAIN response'.req_body[1] ) =>
             /\ response'.status = 200
             /\ response'.id = ObjectIdStr(next_oid)
             /\ Len(store'["booking"]) = Len(store["booking"]) + 1
             /\ Last(store'["booking"])["tour_id"] =
                  response'.req_body[1]["tour_id"] ]_vars

\* C9 witness: a booking persisted for a tour_id that names no tour.
C9_Witness ==
  /\ response.op = "create_booking" /\ response.status = 200
  /\ response.req_body[1]["tour_id"] = "no-such-tour"
  /\ \A i \in DOMAIN store["tour"] :
       ObjectIdStr(store["tour"][i]["_id"]) # "no-such-tour"
  /\ Last(store["booking"])["tour_id"] = "no-such-tour"

IsPrefix(s, t) == Len(s) <= Len(t) /\ SubSeq(t, 1, Len(s)) = s

GetOps == {"read_root", "hello", "test_database", "list_tours", "get_faqs"}

\* C10: no step modifies or removes a persisted record; a successful POST
\* adds exactly one record to its own collection and leaves the other
\* alone; the GET endpoints leave both collections as they were.
C10_RecordsPermanent ==
  [][ /\ IsPrefix(store["tour"], store'["tour"])
      /\ IsPrefix(store["booking"], store'["booking"])
      /\ response'.op \in GetOps => store' = store
      /\ (response'.status # 200) => store' = store
      /\ ( response'.op = "create_tour" /\ response'.status = 200
           /\ response' # response ) =>
           /\ Len(store'["tour"]) = Len(store["tour"]) + 1
           /\ store'["booking"] = store["booking"]
      /\ ( response'.op = "create_booking" /\ response'.status = 200
           /\ response' # response ) =>
           /\ Len(store'["booking"]) = Len(store["booking"]) + 1
           /\ store'["tour"] = store["tour"] ]_vars

\* C10 witness: GET /api/tours answered with a tour while the stored tour
\* still carries "_id" and no "id", beside a stored booking.
C10_Witness ==
  /\ response.op = "list_tours" /\ response.status = 200
  /\ Len(response.tours) > 0
  /\ Len(store["booking"]) > 0
  /\ DOMAIN store["tour"][1] = TourFields \cup {"_id"}

====
